---- MODULE Spec2Model ----
(***************************************************************************)
(* Model of backend/app.py: the camera_loop driver task (background diff   *)
(* detection, persistence counter, cooldown-gated trigger, rate-limited    *)
(* frame streaming) and the WSMgr websocket hub it broadcasts through.     *)
(*                                                                         *)
(* Time is an integer number of clock ticks.  One second is                *)
(* TicksPerSecond = Resolution * FPS_LIMIT ticks, so that the send period  *)
(* 1.0 / max(1, FPS_LIMIT) is a whole number of ticks.                     *)
(*                                                                         *)
(* asyncio runs one task at a time and switches tasks only at an await:    *)
(* the driver's steps between two awaits are atomic, and the websocket     *)
(* handlers and the environment act only while the driver is suspended.    *)
(***************************************************************************)
EXTENDS Integers, Sequences, FiniteSets, TLC

\* ---------------------------------------------------------------- constants
FPS_LIMIT == 15
MIN_AREA_RATIO_NUM == 4
MIN_AREA_RATIO_DEN == 1000
PERSISTENCE_FRAMES == 3
COOLDOWN_SECONDS == 6
\* WebSocketState.CONNECTED, the value broadcast_* compares client_state to
CONNECTED == 1
\* any other value of client_state
NotConnected == CONNECTED + 1
\* module-level initial values of last_trigger_at and of last_send
INITIAL_LAST_TRIGGER == 0
INITIAL_LAST_SEND == 0

\* ------------------------------------------------------------------- bounds
\* clock ticks per send period
Resolution == 2
\* connections ever opened
MaxClients == 2
\* contours findContours returns for one frame
MaxContours == 1
\* clock readings are followed for this many send periods after the start and
\* after each long pause
MaxFinePeriods == 3
\* the same, where the counter is followed while a cooldown holds it back
MaxHoldPeriods == 4
\* long pauses (of about one cooldown) followed
MaxJumps == 1
\* the rate limit is followed for one second plus this many ticks
ExtraTicks == 2
\* present_count is followed up to this value
MaxCount == 5
\* contours of one frame when the choice among several regions is followed
MaxRegions == 2
\* frame size of the camera
FrameW == 640
FrameH == 480
\* wall clock (ticks since the epoch) when the task starts
StartTime == 1000
\* the same, for a system whose clock was at the epoch when it came up
EarlyStartTime == 1

\* Python's None
None == 0
ClientIds == 1..MaxClients

Max(a, b) == IF a >= b THEN a ELSE b
Min(a, b) == IF a <= b THEN a ELSE b

TicksPerSecond == Resolution * FPS_LIMIT
CooldownTicks == COOLDOWN_SECONDS * TicksPerSecond
\* 1.0 / max(1, FPS_LIMIT), in ticks
SendPeriod == TicksPerSecond \div Max(1, FPS_LIMIT)
\* time between two clock readings of the loop: less than a send period, a
\* send period; or a long pause that ends at, or just before, a cooldown's end
ShortDeltas == {1, SendPeriod}
LongDeltas == (CooldownTicks - (PERSISTENCE_FRAMES - 1))..CooldownTicks
Deltas == ShortDeltas \cup LongDeltas

\* bounding boxes (w, h) boundingRect may return for a contour
Boxes == {<<30, 30>>, <<50, 50>>, <<25, 100>>}
RECURSIVE SeqsUpTo(_, _)
SeqsUpTo(S, n) ==
    IF n = 0 THEN {<<>>}
    ELSE LET shorter == SeqsUpTo(S, n - 1)
         IN  shorter \cup {Append(s, x) : s \in shorter, x \in S}
ContourLists == SeqsUpTo(Boxes, MaxContours)
\* boxes for frames with several regions: two of them differ and have the same
\* area, one is smaller and has exactly the least area kept in a frame of 640
\* by 480, and two are too small to be kept: a single pixel, and one whose area
\* is one short of the least area kept
RegionBoxes == {<<1, 1>>, <<409, 3>>, <<614, 2>>, <<50, 50>>, <<25, 100>>}
RegionLists == SeqsUpTo(RegionBoxes, MaxRegions)

Range(s) == {s[i] : i \in 1..Len(s)}

VARIABLES
    pc,              \* position of camera_loop
    source,          \* the frame source: "live" or "dead" (every read fails)
    now,             \* camera_loop's local now (last time.time() read)
    last_trigger_at, \* module global
    present_count,   \* module global
    last_send,       \* camera_loop's local last_send
    detections,      \* the current iteration's detections (boxes)
    frame_contours,  \* history: the boxes of the contours found in its frame
    bg_model,        \* module global, as the now of the iteration that last
                     \* updated it (the start time for the warm-up frame)
    clients,         \* ws_mgr.clients
    hstate,          \* websocket_endpoint of each connection: none, open, closed
    chan,            \* each connection's transport: ok, hung, closed
    bc_kind,         \* broadcast in progress: none, json, bytes
    bc_list,         \* the list the broadcast's for loop iterates
    bc_idx,          \* index of the loop's next element
    inflight,        \* the client whose send is awaited, or None
    dead,            \* the broadcast's local dead list
    bc_log,          \* history: what the broadcast did with each visited client
    bc_joined,       \* history: clients registered while the broadcast ran
    bc_left,         \* history: clients whose handler left while it ran
    bc_phase,        \* history: idle, running, done
    hub_error,       \* an exception escaped a WSMgr operation
    events,          \* history: the trigger events emitted so far
    snap_region,     \* history: the detection cropped into the current
                     \* iteration's snapshot, None when it wrote none
    outputs,         \* history: what the current iteration has put out, in order
    run,             \* history: the fired flags of the current clean run
    streak,          \* history: processed iterations in a row with detections
    quiet,           \* history: those of them since the last trigger
    unbroken,        \* history: processed iterations since the last trigger if
                     \* all had detections; -1 before it or once one had none
    prev_count,      \* history: present_count before the latest processed iteration
    seen_detection,  \* history: some processed iteration had detections
    win_start,       \* history: now of the send that opened the observed window
    win_count,       \* history: broadcast_bytes calls in the observed window
    win_last         \* history: now of the last call counted in win_count

vars == <<pc, source, now, last_trigger_at, present_count, last_send,
          detections, frame_contours, bg_model, clients, hstate, chan,
          bc_kind, bc_list, bc_idx, inflight, dead, bc_log, bc_joined,
          bc_left, bc_phase, hub_error, events, outputs, run, streak, quiet,
          unbroken, snap_region, prev_count, seen_detection, win_start,
          win_count, win_last>>

iterVars == <<now, last_trigger_at, present_count, last_send, detections,
              frame_contours, bg_model, events, run, streak, quiet, unbroken,
              snap_region, prev_count, seen_detection>>
driverVars == <<iterVars, outputs>>
bcVars == <<bc_kind, bc_list, bc_idx, inflight, dead, bc_log, bc_joined,
            bc_left, bc_phase>>
winVars == <<win_start, win_count, win_last>>
hubVars == <<clients, hstate, chan, hub_error>>


\* ------------------------------------------------------ camera_loop, pure parts
Area(box) == box[1] * box[2]

\* max(10, int(MIN_AREA_RATIO * (w * h)))
min_area_px ==
    Max(10, (MIN_AREA_RATIO_NUM * (FrameW * FrameH)) \div MIN_AREA_RATIO_DEN)

\* variant of KeepsContour: every contour is kept
KeepsContourAlways(box) == Area(box) >= 1
\* if area >= min_area_px
KeepsContour(box) == Area(box) >= min_area_px

\* the detections list built from the frame's contours
Detect(contours) == SelectSeq(contours, KeepsContour)

\* variants of CountUpdate: one that counts every frame, one that gives
\* partial credit after a frame with no detection
CountUpdateSticky(cnt, dets) == cnt + 1
CountUpdateDecay(cnt, dets) == IF dets # <<>> THEN cnt + 1 ELSE Max(cnt - 1, 0)
\* variant of CountUpdate: the counter stops at PERSISTENCE_FRAMES
CountUpdateCapped(cnt, dets) ==
    IF dets # <<>> THEN Min(cnt + 1, PERSISTENCE_FRAMES) ELSE 0
\* if detections: present_count += 1, else: present_count = 0
CountUpdate(cnt, dets) == IF dets # <<>> THEN cnt + 1 ELSE 0

\* variant of Persisted: one frame early
PersistedEarly(cnt) == cnt >= PERSISTENCE_FRAMES - 1
\* variant of Persisted: one frame late
PersistedLate(cnt) == cnt > PERSISTENCE_FRAMES
\* present_count >= PERSISTENCE_FRAMES
Persisted(cnt) == cnt >= PERSISTENCE_FRAMES

\* variant of CooldownPassed: already at the cooldown's last instant
CooldownPassedAtEdge(t, last) == (t - last) >= CooldownTicks
\* (now - last_trigger_at) > COOLDOWN_SECONDS
CooldownPassed(t, last) == (t - last) > CooldownTicks

\* variant of ShouldFire: the cooldown is not consulted
ShouldFireCountOnly(cnt, t, last) == Persisted(cnt)
\* present_count >= PERSISTENCE_FRAMES and (now - last_trigger_at) > COOLDOWN_SECONDS
ShouldFire(cnt, t, last) == Persisted(cnt) /\ CooldownPassed(t, last)

\* variant of RateAllows: any later clock reading passes
RateAllowsAlways(t, last) == (t - last) > 0
\* (now - last_send) >= (1.0 / max(1, FPS_LIMIT))
RateAllows(t, last) == (t - last) >= SendPeriod

\* variant of Largest: the last detection of maximum area
LargestLastSeen(dets) ==
    IF dets = <<>> THEN None
    ELSE LET best == CHOOSE i \in 1..Len(dets) :
                        /\ \A j \in 1..Len(dets) : Area(dets[j]) <= Area(dets[i])
                        /\ \A j \in (i + 1)..Len(dets) : Area(dets[j]) < Area(dets[i])
         IN  dets[best]

\* max(detections, key=area): the first detection of maximum area
Largest(dets) ==
    IF dets = <<>> THEN None
    ELSE LET best == CHOOSE i \in 1..Len(dets) :
                        /\ \A j \in 1..Len(dets) : Area(dets[j]) <= Area(dets[i])
                        /\ \A j \in 1..(i - 1) : Area(dets[j]) < Area(dets[i])
         IN  dets[best]

\* variant of FireOutputs: the clients are notified before the file is written
FireOutputsNotifyFirst == <<"json", "snapshot">>
\* what a firing iteration does, in the order of lines 148-160: cv2.imwrite of
\* the snapshot, then ws_mgr.broadcast_json of the trigger event
FireOutputs == <<"snapshot", "json">>

\* variant of FileOf: the file name carries the minute
FileOfMinute(t) == t \div (60 * TicksPerSecond)
\* int(now), the number in the snapshot's file name
FileOf(t) == t \div TicksPerSecond

\* ------------------------------------------------------------- WSMgr, pure parts
\* list.remove(ws): drops the first ws, raises ValueError when there is none
RECURSIVE RemoveFirst(_, _)
RemoveFirst(list, ws) ==
    IF list = <<>> THEN <<>>
    ELSE IF Head(list) = ws THEN Tail(list)
    ELSE <<Head(list)>> \o RemoveFirst(Tail(list), ws)

ListRemove(list, ws) ==
    [list |-> RemoveFirst(list, ws), raised |-> ws \notin Range(list)]

\* variant of Disconnect: the ValueError is not caught
DisconnectUncaught(list, ws) ==
    LET r == ListRemove(list, ws) IN [list |-> r.list, error |-> r.raised]
\* WSMgr.disconnect: remove, and swallow the ValueError
Disconnect(list, ws) ==
    LET r == ListRemove(list, ws) IN [list |-> r.list, error |-> FALSE]

\* for ws in dead: self.disconnect(ws)
RECURSIVE DisconnectAll(_, _)
DisconnectAll(list, ds) ==
    IF ds = <<>> THEN [list |-> list, error |-> FALSE]
    ELSE LET one == Disconnect(list, Head(ds))
             rest == DisconnectAll(one.list, Tail(ds))
         IN  [list |-> rest.list, error |-> one.error \/ rest.error]

\* ws.client_state.value
ClientState(ws) == IF chan[ws] = "closed" THEN NotConnected ELSE CONNECTED

\* variant of IterList: the loop runs over self.clients itself
IterLive == clients
\* the list a broadcast's for loop runs over: list(self.clients), taken at its start
IterList == bc_list

\* variant of DeadAfterRaise: the failed client is not recorded
DeadAfterRaiseForgets(ds, ws) == ds
\* except Exception: dead.append(ws)
DeadAfterRaise(ds, ws) == Append(ds, ws)

\* the driver is suspended at an await: other tasks may run
Suspended ==
    \/ pc \in {"start", "sleep", "retry_sleep", "terminated"}
    \/ inflight # None

\* ------------------------------------------------------------------- histories
BcIdle ==
    /\ bc_kind' = "none"
    /\ bc_list' = <<>>
    /\ bc_idx' = 1
    /\ inflight' = None
    /\ dead' = <<>>
    /\ bc_log' = <<>>
    /\ bc_joined' = {}
    /\ bc_left' = {}
    /\ bc_phase' = "idle"

\* dead = [] and the for loop's list(self.clients), for broadcast_json / _bytes
BcStart(kind) ==
    /\ bc_kind' = kind
    /\ bc_list' = clients
    /\ bc_idx' = 1
    /\ inflight' = None
    /\ dead' = <<>>
    /\ bc_log' = <<>>
    /\ bc_joined' = {}
    /\ bc_left' = {}
    /\ bc_phase' = "running"

\* A clean run is a series of consecutive processed iterations, the first one
\* entered with present_count = 0, each with detections and with the cooldown
\* elapsed.  run holds the fired flag of each iteration of the current clean
\* run, up to PERSISTENCE_FRAMES of them; it is empty outside a clean run.
RunAfter(r, fresh, qualifies, fire) ==
    IF ~qualifies THEN <<>>
    ELSE IF fresh THEN <<fire>>
    ELSE IF r = <<>> \/ Len(r) >= PERSISTENCE_FRAMES THEN <<>>
    ELSE Append(r, fire)

\* the observed window is dropped once now is more than a second past its start
WinExpired(t) == win_start # None /\ t - win_start > TicksPerSecond

\* ------------------------------------------------------------------ camera_loop
\* lines 80-90: the source does not open, or the warm-up read fails
StartupFails ==
    /\ pc = "start"
    /\ pc' = "terminated"
    /\ UNCHANGED <<source, driverVars, bcVars, winVars, hubVars>>

\* lines 80-99: the source opens, the warm-up frame initialises the background
StartupOk ==
    /\ pc = "start"
    /\ source = "live"
    /\ bg_model' = now
    /\ last_send' = INITIAL_LAST_SEND
    /\ pc' = "read"
    /\ UNCHANGED <<source, now, last_trigger_at, present_count, detections,
                   frame_contours, events, outputs, run, streak, quiet,
                   unbroken, snap_region, prev_count, seen_detection, bcVars,
                   winVars, hubVars>>

\* variant of ReadFail: a failed read counts as a frame with no detection
ReadFailCountsEmpty ==
    /\ pc = "read"
    /\ pc' = "retry_sleep"
    /\ present_count' = 0
    /\ UNCHANGED <<source, now, last_trigger_at, last_send, detections,
                   frame_contours, bg_model, events, outputs, run, streak,
                   quiet, unbroken, snap_region, prev_count, seen_detection,
                   bcVars, winVars, hubVars>>

\* lines 102-105: cap.read() gives no frame; await asyncio.sleep(0.05); continue
ReadFail ==
    /\ pc = "read"
    /\ pc' = "retry_sleep"
    /\ UNCHANGED <<source, driverVars, bcVars, winVars, hubVars>>

RetryWake ==
    /\ pc = "retry_sleep"
    /\ pc' = "read"
    /\ UNCHANGED <<source, driverVars, bcVars, winVars, hubVars>>

\* lines 102-160 up to the first await: a frame is read, its contours filtered,
\* the counter updated, the clock read and the trigger decided; a trigger writes
\* the snapshot and enters broadcast_json
ProcessFrame(contours, d) ==
    LET dets == Detect(contours)
        cnt == CountUpdate(present_count, dets)
        t == now + d
        fire == ShouldFire(cnt, t, last_trigger_at)
    IN  /\ pc = "read"
        /\ source = "live"
        /\ bg_model' = t
        /\ detections' = dets
        /\ frame_contours' = contours
        /\ now' = t
        /\ seen_detection' = (seen_detection \/ dets # <<>>)
        /\ run' = RunAfter(run, present_count = 0,
                            dets # <<>> /\ CooldownPassed(t, last_trigger_at), fire)
        /\ prev_count' = present_count
        /\ streak' = IF dets = <<>> THEN 0 ELSE Min(streak + 1, PERSISTENCE_FRAMES)
        /\ quiet' = IF dets = <<>> \/ fire THEN 0
                    ELSE Min(quiet + 1, PERSISTENCE_FRAMES)
        /\ unbroken' = IF fire THEN 0
                       ELSE IF unbroken < 0 \/ dets = <<>> THEN -1
                       ELSE unbroken + 1
        /\ IF WinExpired(t)
             THEN win_start' = None /\ win_count' = 0 /\ win_last' = None
             ELSE UNCHANGED winVars
        /\ IF fire
             THEN /\ last_trigger_at' = t
                  /\ present_count' = 0
                  /\ events' = Append(events, [file |-> FileOf(t), ts |-> t])
                  /\ snap_region' = Largest(dets)
                  /\ outputs' = FireOutputs
                  /\ BcStart("json")
                  /\ pc' = "json"
             ELSE /\ present_count' = cnt
                  /\ snap_region' = None
                  /\ outputs' = <<>>
                  /\ BcIdle
                  /\ pc' = "gate"
                  /\ UNCHANGED <<last_trigger_at, events>>
        /\ UNCHANGED <<source, last_send, hubVars>>

\* lines 163-165: the rate limit lets this frame through: broadcast_bytes is called
GateSend(observe) ==
    /\ pc = "gate"
    /\ RateAllows(now, last_send)
    /\ BcStart("bytes")
    /\ pc' = "bytes"
    /\ IF observe
         THEN win_start' = now /\ win_count' = 1 /\ win_last' = now
         ELSE IF win_start = None
         THEN UNCHANGED winVars
         ELSE win_start' = win_start /\ win_count' = win_count + 1 /\ win_last' = now
    /\ outputs' = Append(outputs, "bytes")
    /\ UNCHANGED <<source, iterVars, hubVars>>

\* line 163 is false: the frame is dropped
GateDrop ==
    /\ pc = "gate"
    /\ ~RateAllows(now, last_send)
    /\ pc' = "sleep"
    /\ UNCHANGED <<source, driverVars, bcVars, winVars, hubVars>>

\* lines 45-48 / 57-60: the loop takes its next client; a client whose
\* client_state is not CONNECTED is passed over, else the send is awaited
BcVisit ==
    /\ pc \in {"json", "bytes"}
    /\ inflight = None
    /\ bc_idx <= Len(IterList)
    /\ LET ws == IterList[bc_idx]
       IN  IF ClientState(ws) = CONNECTED
             THEN /\ inflight' = ws
                  /\ UNCHANGED bc_log
             ELSE /\ inflight' = None
                  /\ bc_log' = Append(bc_log, [ws |-> ws, res |-> "skipped"])
    /\ bc_idx' = bc_idx + 1
    /\ UNCHANGED <<pc, source, driverVars, bc_kind, bc_list, dead, bc_joined,
                   bc_left, bc_phase, winVars, hubVars>>

\* the awaited send returns
SendReturns ==
    /\ inflight # None
    /\ chan[inflight] = "ok"
    /\ bc_log' = Append(bc_log, [ws |-> inflight, res |-> "sent"])
    /\ inflight' = None
    /\ UNCHANGED <<pc, source, driverVars, bc_kind, bc_list, bc_idx, dead,
                   bc_joined, bc_left, bc_phase, winVars, hubVars>>

\* lines 49-50 / 61-62: the awaited send raises
SendRaises ==
    /\ inflight # None
    /\ chan[inflight] # "hung"
    /\ dead' = DeadAfterRaise(dead, inflight)
    /\ bc_log' = Append(bc_log, [ws |-> inflight, res |-> "raised"])
    /\ inflight' = None
    /\ UNCHANGED <<pc, source, driverVars, bc_kind, bc_list, bc_idx,
                   bc_joined, bc_left, bc_phase, winVars, hubVars>>

\* lines 51-52 / 63-64: the loop is over, the dead clients are disconnected;
\* after broadcast_bytes, line 166 sets last_send and line 169 sleeps
BcFinish ==
    /\ pc \in {"json", "bytes"}
    /\ inflight = None
    /\ bc_idx > Len(IterList)
    /\ LET r == DisconnectAll(clients, dead)
       IN  /\ clients' = r.list
           /\ hub_error' = (hub_error \/ r.error)
    /\ bc_phase' = "done"
    /\ IF pc = "json"
         THEN pc' = "gate" /\ UNCHANGED last_send
         ELSE pc' = "sleep" /\ last_send' = now
    /\ UNCHANGED <<source, now, last_trigger_at, present_count, detections,
                   frame_contours, bg_model, events, outputs, run, streak,
                   quiet, unbroken, snap_region, prev_count, seen_detection,
                   bc_kind, bc_list, bc_idx, inflight, dead, bc_log,
                   bc_joined, bc_left, winVars, hstate, chan>>

\* line 169: await asyncio.sleep(0.01) returns
Wake ==
    /\ pc = "sleep"
    /\ pc' = "read"
    /\ UNCHANGED <<source, driverVars, bcVars, winVars, hubVars>>

\* --------------------------------------------------- websocket_endpoint, WSMgr
\* the history of a broadcast follows the clients that join and leave while it
\* runs; once it has returned, the next change of the hub closes the history
BcTrack(joined, left) ==
    IF bc_phase = "done"
      THEN BcIdle
      ELSE /\ bc_joined' = IF bc_phase = "running" THEN bc_joined \cup joined
                           ELSE bc_joined
           /\ bc_left' = IF bc_phase = "running" THEN bc_left \cup left
                         ELSE bc_left
           /\ UNCHANGED <<bc_kind, bc_list, bc_idx, inflight, dead, bc_log,
                          bc_phase>>

\* lines 178, 33-35: ws_mgr.connect: accept, then clients.append(ws)
Connect(c) ==
    /\ Suspended
    /\ hstate[c] = "none"
    /\ \A b \in ClientIds : b < c => hstate[b] # "none"
    /\ clients' = Append(clients, c)
    /\ hstate' = [hstate EXCEPT ![c] = "open"]
    /\ BcTrack({c}, {})
    /\ UNCHANGED <<pc, source, driverVars, winVars, chan, hub_error>>

HandlerLeaves(c, newchan) ==
    /\ Suspended
    /\ hstate[c] = "open"
    /\ LET r == Disconnect(clients, c)
       IN  /\ clients' = r.list
           /\ hub_error' = (hub_error \/ r.error)
    /\ hstate' = [hstate EXCEPT ![c] = "closed"]
    /\ chan' = [chan EXCEPT ![c] = newchan]
    /\ BcTrack({}, {c})
    /\ UNCHANGED <<pc, source, driverVars, winVars>>

\* lines 182-185: receive_text raises WebSocketDisconnect (the peer has gone,
\* client_state is DISCONNECTED from here on)
HandlerDisconnect(c) == HandlerLeaves(c, "closed")

\* lines 186-188: receive_text raises another exception
HandlerError(c) == HandlerLeaves(c, chan[c])

\* the peer stops reading: a send to it neither returns nor raises
LinkHangs(c) ==
    /\ Suspended
    /\ hstate[c] = "open"
    /\ chan[c] = "ok"
    /\ chan' = [chan EXCEPT ![c] = "hung"]
    /\ UNCHANGED <<pc, source, driverVars, bcVars, winVars, clients, hstate,
                   hub_error>>

\* the frame source fails for good
SourceDies ==
    /\ Suspended
    /\ source = "live"
    /\ source' = "dead"
    /\ UNCHANGED <<pc, driverVars, bcVars, winVars, hubVars>>

InitAt(t0) ==
    /\ pc = "start"
    /\ source \in {"live", "dead"}
    /\ now = t0
    /\ last_trigger_at = INITIAL_LAST_TRIGGER
    /\ present_count = 0
    /\ last_send = INITIAL_LAST_SEND
    /\ detections = <<>>
    /\ frame_contours = <<>>
    /\ bg_model = None
    /\ clients = <<>>
    /\ hstate = [c \in ClientIds |-> "none"]
    /\ chan = [c \in ClientIds |-> "ok"]
    /\ bc_kind = "none"
    /\ bc_list = <<>>
    /\ bc_idx = 1
    /\ inflight = None
    /\ dead = <<>>
    /\ bc_log = <<>>
    /\ bc_joined = {}
    /\ bc_left = {}
    /\ bc_phase = "idle"
    /\ hub_error = FALSE
    /\ events = <<>>
    /\ snap_region = None
    /\ outputs = <<>>
    /\ run = <<>>
    /\ streak = 0
    /\ quiet = 0
    /\ unbroken = -1
    /\ prev_count = 0
    /\ seen_detection = FALSE
    /\ win_start = None
    /\ win_count = 0
    /\ win_last = None

Init == InitAt(StartTime)

\* ------------------------------------------------------------- specifications
\* the inputs followed: clock readings within MaxFinePeriods send periods of the
\* start or of the end of one of `jumps` long pauses, the counter up to MaxCount
Elapsed(t) == t - StartTime
Followed(contours, d, jumps) ==
    /\ Elapsed(now + d) \div CooldownTicks <= jumps
    /\ Elapsed(now + d) % CooldownTicks <= MaxFinePeriods * SendPeriod
    /\ CountUpdate(present_count, Detect(contours)) <= MaxCount

\* the driver's steps that need no client
LoopNext ==
    \/ StartupFails
    \/ StartupOk
    \/ ReadFail
    \/ RetryWake
    \/ GateDrop
    \/ BcFinish
    \/ Wake

SendNext ==
    \/ BcVisit
    \/ SendReturns
    \/ SendRaises

Frame ==
    \E contours \in ContourLists, d \in ShortDeltas :
        Followed(contours, d, 0) /\ ProcessFrame(contours, d)

DriverNext == LoopNext \/ SendNext \/ Frame \/ GateSend(FALSE)

HubNext ==
    \E c \in ClientIds :
        \/ Connect(c)
        \/ HandlerDisconnect(c)
        \/ HandlerError(c)
        \/ LinkHangs(c)

\* the whole program: the driver, the websocket handlers, the environment
Next == DriverNext \/ HubNext \/ SourceDies

Spec == Init /\ [][Next]_vars

\* the event loop runs the driver whenever it can take a step
FairSpec == Spec /\ WF_vars(DriverNext)

\* the driver while no client connects, followed across a cooldown
TimedFrame ==
    \E contours \in ContourLists, d \in Deltas :
        Followed(contours, d, MaxJumps) /\ ProcessFrame(contours, d)

TimingNext == LoopNext \/ TimedFrame \/ GateSend(FALSE) \/ SourceDies

TimingSpec == Init /\ [][TimingNext]_vars

\* the driver in front of a static scene (no frame has a detection) while no
\* client connects, followed for a little more than a second, with a
\* one-second window opened at any broadcast_bytes call
StaticContourLists == {c \in ContourLists : Detect(c) = <<>>}
RateFrame ==
    \E contours \in StaticContourLists, d \in ShortDeltas :
        /\ Elapsed(now + d) <= TicksPerSecond + ExtraTicks
        /\ ProcessFrame(contours, d)

RateGate == \E observe \in BOOLEAN : (observe => win_start = None) /\ GateSend(observe)

RateNext == LoopNext \/ RateFrame \/ RateGate \/ SourceDies

RateSpec == Init /\ [][RateNext]_vars

\* the driver while no client connects, on a system whose wall clock is within
\* COOLDOWN_SECONDS of the epoch when the task starts, followed until a little
\* after the clock has passed COOLDOWN_SECONDS
EarlyInit == InitAt(EarlyStartTime)

EarlyFrame ==
    \E contours \in ContourLists, d \in Deltas :
        /\ now + d <= CooldownTicks + MaxFinePeriods * SendPeriod
        /\ (now + d) % CooldownTicks <= MaxFinePeriods * SendPeriod
        /\ CountUpdate(present_count, Detect(contours)) <= MaxCount
        /\ ProcessFrame(contours, d)

EarlyNext == LoopNext \/ EarlyFrame \/ GateSend(FALSE) \/ SourceDies

EarlySpec == EarlyInit /\ [][EarlyNext]_vars

\* the driver while no client connects, in front of scenes with several
\* regions per frame, followed up to its first trigger
RegionFrame ==
    \E contours \in RegionLists, d \in ShortDeltas :
        /\ events = <<>>
        /\ Followed(contours, d, 0)
        /\ ProcessFrame(contours, d)

RegionNext == LoopNext \/ RegionFrame \/ GateSend(FALSE) \/ SourceDies

RegionSpec == Init /\ [][RegionNext]_vars

\* the driver while no client connects, followed across a cooldown for long
\* enough that the counter passes PERSISTENCE_FRAMES while the cooldown holds;
\* once a trigger has fired, what set it off stays in view
HoldFrame ==
    \E contours \in ContourLists, d \in Deltas :
        /\ events # <<>> => Detect(contours) # <<>>
        /\ Elapsed(now + d) \div CooldownTicks <= MaxJumps
        /\ Elapsed(now + d) % CooldownTicks <= MaxHoldPeriods * SendPeriod
        /\ CountUpdate(present_count, Detect(contours)) <= MaxCount
        /\ ProcessFrame(contours, d)

HoldNext == LoopNext \/ HoldFrame \/ GateSend(FALSE) \/ SourceDies

HoldSpec == Init /\ [][HoldNext]_vars

\* ----------------------------------------------------------------- properties
\* the latest processed iteration fired a trigger (its event carries ts = now,
\* and now grows with every processed iteration)
FiredNow == events # <<>> /\ events[Len(events)].ts = now

\* C1: the ts values of any two trigger events differ by more than
\* COOLDOWN_SECONDS: after a trigger at time t no trigger fires at an
\* iteration whose now is at most t + COOLDOWN_SECONDS
C1_TriggersApart ==
    \A i, j \in 1..Len(events) :
        i < j => events[j].ts - events[i].ts > CooldownTicks

\* two triggers have fired, the second as early as the cooldown allows
C1_Witness ==
    /\ Len(events) = 2
    /\ events[2].ts - events[1].ts = CooldownTicks + 1

\* C2: in a clean run (begun with present_count = 0, every iteration with
\* detections and with the cooldown elapsed) the trigger fires on the
\* PERSISTENCE_FRAMES-th iteration and on none before it
C2_FiresOnKth ==
    /\ \A i \in 1..Len(run) : run[i] <=> (i = PERSISTENCE_FRAMES)
    /\ Len(run) <= PERSISTENCE_FRAMES

\* a clean run has reached its PERSISTENCE_FRAMES-th iteration
C2_Witness == Len(run) = PERSISTENCE_FRAMES /\ FiredNow

\* C3: while no processed iteration has had a detection, present_count is 0
\* and no trigger has occurred: no snapshot, no event, no broadcast_json
C3_StaticSceneQuiet ==
    ~seen_detection =>
        /\ present_count = 0
        /\ events = <<>>
        /\ last_trigger_at = INITIAL_LAST_TRIGGER
        /\ bc_kind # "json"
        /\ pc # "json"

\* at least PERSISTENCE_FRAMES iterations were processed, none with a detection
C3_Witness ==
    /\ ~seen_detection
    /\ Elapsed(now) >= PERSISTENCE_FRAMES * SendPeriod
    /\ pc = "sleep"

\* C4: a processed iteration with no detection leaves present_count at 0, and
\* every trigger comes at the end of PERSISTENCE_FRAMES processed iterations in
\* a row that all had detections
C4_EmptyResets ==
    /\ detections = <<>> => present_count = 0
    /\ FiredNow => streak = PERSISTENCE_FRAMES

\* a run one short of PERSISTENCE_FRAMES was interrupted by an iteration with no
\* detection
C4_Witness ==
    /\ detections = <<>>
    /\ prev_count = PERSISTENCE_FRAMES - 1
    /\ present_count = 0
    /\ pc = "gate"

Returned == bc_phase = "done"
LogOf(res) == {bc_log[i].ws : i \in {j \in 1..Len(bc_log) : bc_log[j].res = res}}

\* the broadcast that has returned ran undisturbed, the send to k raised, and
\* every other client of the list was connected and its send did not raise
OnlyFailed(k) ==
    /\ Returned
    /\ bc_joined = {} /\ bc_left = {}
    /\ k \in Range(bc_list)
    /\ LogOf("raised") = {k}
    /\ LogOf("skipped") = {}

\* C5: when the send to client k fails and no other does, every other client
\* of the broadcast has been sent the payload, the client list afterwards is the
\* list before less k, and no exception has left the hub
C5_FailureIsolated ==
    \A k \in ClientIds :
        OnlyFailed(k) =>
            /\ LogOf("sent") = Range(bc_list) \ {k}
            /\ clients = RemoveFirst(bc_list, k)
            /\ hub_error = FALSE

\* a broadcast to two clients in which the first send raised and the second
\* client was served after it
C5_Witness ==
    /\ Len(bc_list) = 2
    /\ OnlyFailed(bc_list[1])
    /\ bc_log[2].res = "sent"

\* C9: a broadcast visits the clients of the list taken at its start, one by
\* one in order, whatever connects or disconnects meanwhile: a client that
\* joined while it ran is not visited and is registered afterwards (unless it
\* left again), a client that left is not registered afterwards, and no
\* exception has left the hub
C9_SnapshotIterated ==
    bc_phase \in {"running", "done"} =>
        /\ Len(bc_log) <= Len(bc_list)
        /\ \A i \in 1..Len(bc_log) : bc_log[i].ws = bc_list[i]
        /\ Returned => Len(bc_log) = Len(bc_list)
        /\ \A c \in bc_joined : \A i \in 1..Len(bc_log) : bc_log[i].ws # c
        /\ Returned =>
              /\ \A c \in bc_joined \ bc_left : c \in Range(clients)
              /\ \A c \in bc_left : c \notin Range(clients)
        /\ hub_error = FALSE

\* a broadcast to two clients has returned; while it ran its first client left
\* and the second was still visited
C9_Witness ==
    /\ Returned
    /\ Len(bc_list) = 2
    /\ bc_list[1] \in bc_left
    /\ bc_log[2].res = "sent"

\* C10: disconnect of a client that is not registered changes nothing and
\* raises nothing, disconnect twice is disconnect once, and no ValueError has
\* left the hub
C10_DisconnectIdempotent ==
    /\ hub_error = FALSE
    /\ \A c \in ClientIds :
          LET once == Disconnect(clients, c)
              twice == Disconnect(once.list, c)
          IN  /\ twice.list = once.list
              /\ ~once.error /\ ~twice.error
              /\ c \notin Range(clients) => once.list = clients

\* the handler of a client disconnected it while its send was awaited, the send
\* then raised, and the broadcast's cleanup disconnected it a second time
C10_Witness ==
    /\ Returned
    /\ \E c \in Range(dead) : c \in bc_left /\ hstate[c] = "closed"

\* C7: a send that never completes does not block the driver: it goes on to
\* its next frame
C7_HungSendDoesNotBlock ==
    \A c \in ClientIds : (inflight = c /\ chan[c] = "hung") ~> (pc = "read")

\* C8: once the frame source has failed for good, camera_loop leaves its loop
C8_DeadSourceTerminates ==
    (source = "dead" /\ pc = "read") ~> (pc = "terminated")

\* ------------------------------------------------- properties of one iteration
\* a step that processes a frame: the read succeeds and the driver goes on to
\* the trigger's broadcast_json or to the rate limit
Processes == pc = "read" /\ pc' \in {"json", "gate"}
\* a step that processes a frame and fires a trigger
Fires == Processes /\ Len(events') = Len(events) + 1

\* C11: a processed iteration fires a trigger if and only if, after the counter
\* update, present_count >= PERSISTENCE_FRAMES and now - last_trigger_at >
\* COOLDOWN_SECONDS; when it fires, present_count becomes 0 and last_trigger_at
\* becomes now; when it does not, last_trigger_at is unchanged and present_count
\* keeps the value of the counter update
C11_FiresIffPersistedAndCooled ==
    [][Processes =>
         LET updated == IF detections' # <<>> THEN present_count + 1 ELSE 0
             due == /\ updated >= PERSISTENCE_FRAMES
                    /\ now' - last_trigger_at > CooldownTicks
         IN  /\ Fires <=> due
             /\ Fires => present_count' = 0 /\ last_trigger_at' = now'
             /\ ~Fires => /\ last_trigger_at' = last_trigger_at
                          /\ present_count' = updated]_vars

\* an iteration has not fired although the counter was at PERSISTENCE_FRAMES or
\* more after its update: a trigger fired earlier and its cooldown has not elapsed
C11_Witness ==
    /\ pc = "gate"
    /\ present_count >= PERSISTENCE_FRAMES
    /\ events # <<>>
    /\ now - last_trigger_at <= CooldownTicks

\* C12: a broadcast attempts a send to every client that was registered when it
\* started: no client of its list is passed over without a send, whatever its
\* connection state (a client that cannot be sent to fails its send and is
\* removed for that)
C12_EveryClientAttempted ==
    \A i \in 1..Len(bc_log) : bc_log[i].res \in {"sent", "raised"}

\* C13: an iteration whose read gives no frame changes none of present_count,
\* last_trigger_at, the background model, last_send and the client list, emits
\* no trigger event and starts no broadcast; the driver then sleeps, and its
\* next step after the sleep is the read again
C13_FailedReadKeepsState ==
    [][/\ (pc = "read" /\ ~Processes) =>
             /\ pc' = "retry_sleep"
             /\ UNCHANGED <<present_count, last_trigger_at, bg_model, last_send,
                            clients, events, now, detections>>
             /\ UNCHANGED <<bc_kind, bc_list, bc_log, bc_phase, inflight>>
       /\ (pc = "retry_sleep" /\ pc' # pc) => pc' = "read"]_vars

\* a read has failed while the source is live, in the middle of a run of
\* detections, after a frame was sent and with a client registered
C13_Witness ==
    /\ pc = "retry_sleep"
    /\ source = "live"
    /\ present_count = PERSISTENCE_FRAMES - 1
    /\ last_send # INITIAL_LAST_SEND
    /\ clients # <<>>

\* C14: in an iteration that fires, the snapshot is written first, then the
\* trigger event is broadcast, and the iteration's annotated frame is broadcast
\* only after that broadcast has returned (and only if the rate limit allows);
\* a trigger event is never broadcast before its snapshot was written; an
\* iteration that does not fire puts out at most its frame
C14_SnapshotThenEventThenFrame ==
    /\ FiredNow =>
          /\ outputs \in {<<"snapshot", "json">>, <<"snapshot", "json", "bytes">>}
          /\ pc = "json" => outputs = <<"snapshot", "json">>
          /\ pc = "bytes" => outputs = <<"snapshot", "json", "bytes">>
    /\ ~FiredNow => outputs \in {<<>>, <<"bytes">>}
    /\ \A i \in 1..Len(outputs) :
          outputs[i] = "json" => \E j \in 1..(i - 1) : outputs[j] = "snapshot"

\* the frame of a firing iteration is being sent to a client, after the
\* snapshot and the broadcast of the trigger event
C14_Witness ==
    /\ FiredNow
    /\ pc = "bytes"
    /\ outputs = <<"snapshot", "json", "bytes">>
    /\ inflight # None

\* C15: the first trigger is not held back by the cooldown: while no trigger
\* has fired, present_count never stays at PERSISTENCE_FRAMES or more after an
\* iteration, because the iteration that brings it there fires and resets it,
\* whatever now is
C15_FirstTriggerUnblocked ==
    events = <<>> => present_count < PERSISTENCE_FRAMES

\* the region of the latest snapshot
LastRegion == snap_region

\* C16: when a trigger fires, the region taken for the snapshot is one of the
\* iteration's detections, none of them has a larger area, and every
\* detection before it in the list has a smaller area: the first of those of
\* maximum area, which the list alone determines
C16_LargestFirstSeen ==
    FiredNow =>
        /\ detections # <<>>
        /\ \E i \in 1..Len(detections) :
              /\ LastRegion = detections[i]
              /\ \A j \in 1..Len(detections) :
                    Area(detections[j]) <= Area(detections[i])
              /\ \A j \in 1..(i - 1) :
                    Area(detections[j]) < Area(detections[i])

\* a trigger has fired on two different detections of the same area, of which
\* the earlier was taken
C16_Witness ==
    /\ FiredNow
    /\ Len(detections) = 2
    /\ Area(detections[1]) = Area(detections[2])
    /\ detections[1] # detections[2]
    /\ LastRegion = detections[1]

\* max(10, floor(MIN_AREA_RATIO * frame_width * frame_height))
LeastArea ==
    LET scaled == (MIN_AREA_RATIO_NUM * FrameW * FrameH) \div MIN_AREA_RATIO_DEN
    IN  IF scaled >= 10 THEN scaled ELSE 10

\* C17: every detection that reaches the persistence counter is a contour of
\* the frame whose box area is at least LeastArea (1228 for a frame of 640 by
\* 480); a frame all of whose contours are below that area has no detection,
\* leaves present_count at 0 and fires no trigger
C17_SmallRegionsNeverCount ==
    /\ (FrameW = 640 /\ FrameH = 480) => LeastArea = 1228
    /\ \A i \in 1..Len(detections) :
          /\ detections[i][1] * detections[i][2] >= LeastArea
          /\ detections[i] \in Range(frame_contours)
    /\ (\A i \in 1..Len(frame_contours) :
            frame_contours[i][1] * frame_contours[i][2] < LeastArea)
          => detections = <<>> /\ present_count = 0 /\ ~FiredNow

\* a frame had a contour one short of the least area and a contour of exactly
\* the least area: only the second was counted
C17_Witness ==
    /\ pc = "gate"
    /\ Len(frame_contours) = 2
    /\ Area(frame_contours[1]) = LeastArea - 1
    /\ Area(frame_contours[2]) = LeastArea
    /\ detections = <<frame_contours[2]>>
    /\ present_count = 1

\* C18: an iteration that fires has a detection, so that the snapshot is the
\* crop of one of its detections and never the whole frame; and the
\* PERSISTENCE_FRAMES - 1 processed iterations before it all had detections and
\* did not fire
C18_FiresOnlyWithDetections ==
    [][Fires =>
         /\ detections' # <<>>
         /\ snap_region' \in Range(detections')
         /\ streak' = PERSISTENCE_FRAMES
         /\ quiet >= PERSISTENCE_FRAMES - 1]_vars

\* a second trigger has fired, after the counter had grown past
\* PERSISTENCE_FRAMES while the cooldown of the first held it back
C18_Witness ==
    /\ FiredNow
    /\ Len(events) = 2
    /\ prev_count >= PERSISTENCE_FRAMES
    /\ LastRegion \in Range(detections)

\* C19 as stated: while every processed iteration since the trigger at t has had
\* detections, present_count grows by one per iteration, and an iteration
\* fires exactly when its now - t > COOLDOWN_SECONDS
C19_FiresWhenCooldownEnds ==
    [][(Processes /\ unbroken >= 0 /\ detections' # <<>>) =>
         /\ present_count = unbroken
         /\ Fires <=> now' - last_trigger_at > CooldownTicks
         /\ ~Fires => present_count' = unbroken + 1]_vars

\* C19, amended: while every processed iteration since the trigger at t has had
\* detections, present_count is their number, however large, and an iteration
\* fires exactly when its now - t > COOLDOWN_SECONDS and it is at least the
\* PERSISTENCE_FRAMES-th of them; the iterations counted while the cooldown held
\* count towards that
C19_UncappedCount ==
    [][(Processes /\ unbroken >= 0 /\ detections' # <<>>) =>
         /\ present_count = unbroken
         /\ Fires <=> /\ now' - last_trigger_at > CooldownTicks
                       /\ unbroken + 1 >= PERSISTENCE_FRAMES
         /\ ~Fires => present_count' = unbroken + 1]_vars

\* the second trigger has fired on the first iteration after the cooldown, the
\* counter having passed PERSISTENCE_FRAMES while the cooldown held it back
C19_Witness ==
    /\ FiredNow
    /\ Len(events) = 2
    /\ prev_count > PERSISTENCE_FRAMES
    /\ unbroken = 0

\* C20: two different triggers write different snapshot files: the number
\* int(now) in the file name grows from each trigger to the next, by at least
\* COOLDOWN_SECONDS, so that no trigger overwrites the snapshot of an earlier one
C20_DistinctSnapshotFiles ==
    \A i, j \in 1..Len(events) :
        i < j =>
            /\ events[i].file # events[j].file
            /\ events[j].file - events[i].file >= COOLDOWN_SECONDS

\* two triggers as close as the cooldown allows: their file numbers differ by
\* COOLDOWN_SECONDS
C20_Witness ==
    /\ Len(events) = 2
    /\ events[2].file = events[1].file + COOLDOWN_SECONDS
    /\ events[2].ts - events[1].ts = CooldownTicks + 1
====
